---- MODULE Spec2Model ----
(***************************************************************************)
(* A model of ExcelExtractor (src/test_openpyxl.py): the extraction of a   *)
(* workbook into Sheet Snapshots, the drawing-anchor resolver, the image   *)
(* strategies, and the serializers (JSON, Markdown, summary).              *)
(*                                                                         *)
(* Text is modelled as a sequence of strings (characters or tokens); the   *)
(* concatenation of two texts is \o.  A Python dict is modelled in its     *)
(* insertion order, as a sequence of entries with distinct keys.           *)
(***************************************************************************)
EXTENDS Integers, Sequences, FiniteSets, TLC

VARIABLES
    file,                       \* the workbook file at excel_path (input, read-only)
    extracted_data,             \* self.extracted_data
    images_extracted_from_zip,  \* hasattr(self, '_images_extracted_from_zip')
    open_handles,               \* archive handles (zipfile.ZipFile) that are open
    out_json,                   \* the file written by save_to_json
    out_md,                     \* the file written by generate_markdown
    out_summary,                \* the file written by generate_summary
    writes,                     \* how often each output was written since the last extraction call
    last_call,                  \* the last operation called and how it ended
    calls                       \* number of operations called so far

vars == <<file, extracted_data, images_extracted_from_zip, open_handles,
          out_json, out_md, out_summary, writes, last_call, calls>>

----------------------------------------------------------------------------
(* Bounds of the model *)

MaxCalls == 3
MaxSheets == 2
MaxAttached == 2
MaxMedia == 2
MaxRow == 4
MaxAnchors == 2
MaxLen == 3

----------------------------------------------------------------------------
(* Text helpers *)

Alphabet ==
    <<"A","B","C","D","E","F","G","H","I","J","K","L","M",
      "N","O","P","Q","R","S","T","U","V","W","X","Y","Z">>

DigitChars == <<"0","1","2","3","4","5","6","7","8","9">>

RECURSIVE IndexOf(_, _, _)
IndexOf(seq, c, i) ==
    IF i > Len(seq) THEN 0
    ELSE IF seq[i] = c THEN i ELSE IndexOf(seq, c, i + 1)

isalpha(c) == IndexOf(Alphabet, c, 1) > 0

isdigit(c) == IndexOf(DigitChars, c, 1) > 0

RECURSIVE filter_isalpha(_)
filter_isalpha(s) ==
    IF s = <<>> THEN <<>>
    ELSE (IF isalpha(Head(s)) THEN <<Head(s)>> ELSE <<>>) \o filter_isalpha(Tail(s))

RECURSIVE filter_isdigit(_)
filter_isdigit(s) ==
    IF s = <<>> THEN <<>>
    ELSE (IF isdigit(Head(s)) THEN <<Head(s)>> ELSE <<>>) \o filter_isdigit(Tail(s))

RECURSIVE str_int(_)
str_int(n) ==
    IF n < 10 THEN <<DigitChars[n + 1]>>
    ELSE str_int(n \div 10) \o <<DigitChars[(n % 10) + 1]>>

RECURSIVE int_acc(_, _)
int_acc(digits, acc) ==
    IF digits = <<>> THEN acc
    ELSE int_acc(Tail(digits), 10 * acc + (IndexOf(DigitChars, Head(digits), 1) - 1))

int(digits) == int_acc(digits, 0)

RECURSIVE get_column_letter(_)
get_column_letter(idx) ==
    IF idx <= 26 THEN <<Alphabet[idx]>>
    ELSE get_column_letter((idx - 1) \div 26) \o <<Alphabet[((idx - 1) % 26) + 1]>>

coordinate(col, row) == get_column_letter(col) \o str_int(row)

RECURSIVE replace(_, _, _)
replace(s, old, new) ==
    IF s = <<>> THEN <<>>
    ELSE (IF Head(s) = old THEN new ELSE <<Head(s)>>) \o replace(Tail(s), old, new)

RECURSIVE join(_, _)
join(sep, parts) ==
    IF parts = <<>> THEN <<>>
    ELSE IF Len(parts) = 1 THEN parts[1]
    ELSE parts[1] \o sep \o join(sep, Tail(parts))

Contains(s, c) == \E i \in DOMAIN s : s[i] = c

(* Python's order on str, for texts made of the letters A..Z. *)
RECURSIVE LexLess(_, _)
LexLess(a, b) ==
    IF a = <<>> THEN b # <<>>
    ELSE IF b = <<>> THEN FALSE
    ELSE IF Head(a) = Head(b) THEN LexLess(Tail(a), Tail(b))
    ELSE IndexOf(Alphabet, Head(a), 1) < IndexOf(Alphabet, Head(b), 1)

RECURSIVE sorted_str(_)
sorted_str(S) ==
    IF S = {} THEN <<>>
    ELSE LET m == CHOOSE x \in S : \A y \in S \ {x} : LexLess(x, y)
         IN  <<m>> \o sorted_str(S \ {m})

RECURSIVE sorted_int(_)
sorted_int(S) ==
    IF S = {} THEN <<>>
    ELSE LET m == CHOOSE x \in S : \A y \in S : x <= y
         IN  <<m>> \o sorted_int(S \ {m})

Max(S) == CHOOSE x \in S : \A y \in S : y <= x

----------------------------------------------------------------------------
(* Values.  None is the empty text <<>> wherever a text or a tuple is       *)
(* optional (a position, a url, a comment, a source).  A cell value is a    *)
(* record: k = "none" (None), "str" (s is the text) or "num" (n, an int).   *)

None == <<>>

NoneValue == [k |-> "none", s |-> <<>>, n |-> 0]
StrValue(s) == [k |-> "str", s |-> s, n |-> 0]
NumValue(n) == [k |-> "num", s |-> <<>>, n |-> n]

(* The result of a call that may raise: raised, the value built so far, the *)
(* one-shot flag after the call, and the archive handles it left open.      *)
Outcome(raised, value, flag, handles) ==
    [raised |-> raised, value |-> value, flag |-> flag, handles |-> handles]

(* Mutant: the handle is closed by a call at the end of the body. *)
ZipFile_closed_on_return(body_raised) == IF body_raised THEN 1 ELSE 0

(* with zipfile.ZipFile(self.excel_path, 'r') as zip_ref: the handles left  *)
(* open when the statement is left, its body having raised or not.          *)
(* __enter__ opens one handle; __exit__ closes it, on return and on raise.  *)
with_ZipFile(body_raised) ==
    LET entered == 1
        exited == 1
    IN  entered - exited

----------------------------------------------------------------------------
(* Drawing-anchor resolver: _parse_drawing_positions *)

DrawingIdxStop == 10

(* positions[f'image_{img_idx}'] = (...): the keys are image_1..image_n.    *)
put_position(positions, img_idx, pos) ==
    IF img_idx <= Len(positions) THEN [positions EXCEPT ![img_idx] = pos]
    ELSE Append(positions, pos)

RECURSIVE select_kind(_, _)
select_kind(anchors, kind) ==
    IF anchors = <<>> THEN <<>>
    ELSE (IF Head(anchors).kind = kind THEN <<Head(anchors)>> ELSE <<>>)
         \o select_kind(Tail(anchors), kind)

(* root.findall('.//xdr:twoCellAnchor') + root.findall('.//xdr:oneCellAnchor') *)
anchor_elements(fragment) ==
    select_kind(fragment.anchors, "two") \o select_kind(fragment.anchors, "one")

(* Mutant: the to element is not read. *)
RECURSIVE parse_anchors_from_only(_, _)
parse_anchors_from_only(anchors, acc) ==
    IF anchors = <<>> \/ acc.raised THEN acc
    ELSE LET from_elem == Head(anchors).from
         IN  IF ~from_elem.present THEN parse_anchors_from_only(Tail(anchors), acc)
             ELSE IF ~from_elem.ok THEN [acc EXCEPT !.raised = TRUE]
             ELSE parse_anchors_from_only(Tail(anchors),
                      [positions |-> put_position(acc.positions, acc.img_idx,
                                         <<from_elem.col, from_elem.row,
                                           from_elem.col, from_elem.row>>),
                       img_idx |-> acc.img_idx + 1,
                       raised |-> FALSE])

(* The loop over the anchors of one fragment.  acc = [positions, img_idx,   *)
(* raised]; an element without col or row raises (None has no .text).       *)
RECURSIVE parse_anchors(_, _)
parse_anchors(anchors, acc) ==
    IF anchors = <<>> \/ acc.raised THEN acc
    ELSE LET anchor == Head(anchors)
             from_elem == anchor.from
             to_elem == anchor.to
         IN  IF ~from_elem.present THEN parse_anchors(Tail(anchors), acc)
             ELSE IF ~from_elem.ok THEN [acc EXCEPT !.raised = TRUE]
             ELSE IF to_elem.present /\ ~to_elem.ok THEN [acc EXCEPT !.raised = TRUE]
             ELSE LET to_col == IF to_elem.present THEN to_elem.col ELSE from_elem.col
                      to_row == IF to_elem.present THEN to_elem.row ELSE from_elem.row
                      pos == <<from_elem.col, from_elem.row, to_col, to_row>>
                  IN  parse_anchors(Tail(anchors),
                          [positions |-> put_position(acc.positions, acc.img_idx, pos),
                           img_idx |-> acc.img_idx + 1,
                           raised |-> FALSE])

(* The body of the try: for drawing_idx in range(1, 10).  ET.fromstring     *)
(* raises on a fragment that is not well-formed XML.                        *)
RECURSIVE parse_drawings(_, _, _)
parse_drawings(drawings, drawing_idx, positions) ==
    IF drawing_idx >= DrawingIdxStop THEN [positions |-> positions, raised |-> FALSE]
    ELSE IF drawing_idx \notin DOMAIN drawings
         THEN parse_drawings(drawings, drawing_idx + 1, positions)
    ELSE IF ~drawings[drawing_idx].well_formed
         THEN [positions |-> positions, raised |-> TRUE]
    ELSE LET r == parse_anchors(anchor_elements(drawings[drawing_idx]),
                      [positions |-> positions, img_idx |-> 1, raised |-> FALSE])
         IN  IF r.raised THEN [positions |-> r.positions, raised |-> TRUE]
             ELSE parse_drawings(drawings, drawing_idx + 1, r.positions)

(* Mutant: the exception is not caught. *)
_parse_drawing_positions_uncaught(f) ==
    LET r == parse_drawings(f.drawings, 1, <<>>)
    IN  [positions |-> r.positions, raised |-> r.raised,
         handles |-> with_ZipFile(r.raised)]

(* try: with ZipFile(...): ... except Exception: print a warning;           *)
(* return positions                                                         *)
caught(r) ==
    [positions |-> r.positions, raised |-> FALSE, handles |-> with_ZipFile(r.raised)]

_parse_drawing_positions(f) == caught(parse_drawings(f.drawings, 1, <<>>))

----------------------------------------------------------------------------
(* Content model builder *)

(* extract_cell_value: the formula key is present when the value is a      *)
(* non-empty str that starts with '='.                                      *)
extract_cell_value(cell) ==
    [value |-> cell.value,
     formula |-> IF cell.value.k = "str" /\ cell.value.s # <<>> /\ Head(cell.value.s) = "="
                 THEN cell.value.s ELSE None]

(* extract_cell_style: the style sub-records are read from the cell as is. *)
extract_cell_style(cell) == [styled |-> cell.has_style]

RECURSIVE extract_merged_cells(_)
extract_merged_cells(ranges) ==
    IF ranges = <<>> THEN <<>>
    ELSE <<Head(ranges)>> \o extract_merged_cells(Tail(ranges))

RECURSIVE extract_hyperlinks(_)
extract_hyperlinks(cells) ==
    IF cells = <<>> THEN <<>>
    ELSE (IF Head(cells).hyperlink # None
          THEN <<[key |-> coordinate(Head(cells).col, Head(cells).row),
                  url |-> Head(cells).hyperlink,
                  display |-> Head(cells).value]>>
          ELSE <<>>) \o extract_hyperlinks(Tail(cells))

RECURSIVE extract_comments(_)
extract_comments(cells) ==
    IF cells = <<>> THEN <<>>
    ELSE (IF Head(cells).comment # None
          THEN <<[key |-> coordinate(Head(cells).col, Head(cells).row),
                  text |-> Head(cells).comment]>>
          ELSE <<>>) \o extract_comments(Tail(cells))

(* image_positions.get(f'image_{idx}') *)
get_position(image_positions, idx) ==
    IF idx \in DOMAIN image_positions THEN image_positions[idx] ELSE None

(* Method 1: the worksheet's _images.  Writing an image file raises when    *)
(* the output directory cannot be written (write_fails).                    *)
RECURSIVE attached_images(_, _, _, _)
attached_images(ws_images, sheet_name, image_positions, idx) ==
    IF idx > Len(ws_images) THEN <<>>
    ELSE <<[filename |-> <<sheet_name, "_image_">> \o str_int(idx)
                             \o <<".", ws_images[idx].format>>,
            format |-> ws_images[idx].format,
            source |-> None,
            position |-> get_position(image_positions, idx)]>>
         \o attached_images(ws_images, sheet_name, image_positions, idx + 1)

Upper(ext) ==
    CASE ext = "png" -> "PNG"
      [] ext = "jpeg" -> "JPEG"
      [] OTHER -> ext

(* os.path.splitext(media_file)[1][1:] *)
splitext_ext(media_file) ==
    IF Len(media_file) >= 2 /\ media_file[Len(media_file) - 1] = "."
    THEN media_file[Len(media_file)] ELSE ""

(* [f for f in zip_ref.namelist() if 'xl/media/' in f and not f.endswith('/')] *)
RECURSIVE media_files_of(_)
media_files_of(namelist) ==
    IF namelist = <<>> THEN <<>>
    ELSE (IF Contains(Head(namelist), "xl/media/")
             /\ Head(namelist)[Len(Head(namelist))] # "/"
          THEN <<Head(namelist)>> ELSE <<>>) \o media_files_of(Tail(namelist))

(* Method 2: every media file of the archive, in namelist order. *)
RECURSIVE scanned_images(_, _, _)
scanned_images(media_files, image_positions, idx) ==
    IF idx > Len(media_files) THEN <<>>
    ELSE LET ext == splitext_ext(media_files[idx])
             file_ext == IF ext = "" THEN "png" ELSE ext
         IN  <<[filename |-> <<"workbook_image_">> \o str_int(idx) \o <<".", file_ext>>,
                format |-> Upper(file_ext),
                source |-> media_files[idx],
                position |-> get_position(image_positions, idx)]>>
             \o scanned_images(media_files, image_positions, idx + 1)

(* Mutant: the archive scan does not depend on the attached images. *)
extract_images_both(f, worksheet, flag, write_fails) ==
    LET resolved == _parse_drawing_positions(f)
        image_positions == resolved.positions
        method1 == attached_images(worksheet.images, worksheet.title, image_positions, 1)
        media_files == media_files_of(f.namelist)
        scan_raises == media_files # <<>> /\ write_fails
    IN  IF resolved.raised THEN Outcome(TRUE, <<>>, flag, resolved.handles)
        ELSE IF method1 # <<>> /\ write_fails
             THEN Outcome(TRUE, <<>>, flag, resolved.handles)
        ELSE IF ~flag
             THEN Outcome(FALSE,
                      method1 \o (IF scan_raises THEN <<>>
                                  ELSE scanned_images(media_files, image_positions, 1)),
                      TRUE,
                      resolved.handles + with_ZipFile(scan_raises))
        ELSE Outcome(FALSE, method1, flag, resolved.handles)

(* Mutant: the archive is scanned for every sheet without attached images. *)
extract_images_every_sheet(f, worksheet, flag, write_fails) ==
    LET resolved == _parse_drawing_positions(f)
        image_positions == resolved.positions
        method1 == attached_images(worksheet.images, worksheet.title, image_positions, 1)
        media_files == media_files_of(f.namelist)
        scan_raises == media_files # <<>> /\ write_fails
    IN  IF resolved.raised THEN Outcome(TRUE, <<>>, flag, resolved.handles)
        ELSE IF method1 # <<>> /\ write_fails
             THEN Outcome(TRUE, <<>>, flag, resolved.handles)
        ELSE IF method1 = <<>>
             THEN Outcome(FALSE,
                      IF scan_raises THEN <<>>
                      ELSE scanned_images(media_files, image_positions, 1),
                      TRUE,
                      resolved.handles + with_ZipFile(scan_raises))
        ELSE Outcome(FALSE, method1, flag, resolved.handles)

(* Mutant: the flag is set after the scan, when the scan has succeeded. *)
images_info_with_flag_after_scan(f, resolved, worksheet, flag, write_fails) ==
    LET image_positions == resolved.positions
        method1 == attached_images(worksheet.images, worksheet.title, image_positions, 1)
        media_files == media_files_of(f.namelist)
        scan_raises == media_files # <<>> /\ write_fails
    IN  IF resolved.raised THEN Outcome(TRUE, <<>>, flag, resolved.handles)
        ELSE IF method1 # <<>> /\ write_fails
             THEN Outcome(TRUE, <<>>, flag, resolved.handles)
        ELSE IF method1 = <<>> /\ ~flag
             THEN Outcome(FALSE,
                      IF scan_raises THEN <<>>
                      ELSE scanned_images(media_files, image_positions, 1),
                      ~scan_raises,
                      resolved.handles + with_ZipFile(scan_raises))
        ELSE Outcome(FALSE, method1, flag, resolved.handles)

(* The two methods of extract_images, resolved being the outcome of its     *)
(* call of the resolver.  The value is images_info; the flag is the         *)
(* one-shot _images_extracted_from_zip after the call.                      *)
images_info_with(f, resolved, worksheet, flag, write_fails) ==
    LET image_positions == resolved.positions
        method1 == attached_images(worksheet.images, worksheet.title, image_positions, 1)
        media_files == media_files_of(f.namelist)
        scan_raises == media_files # <<>> /\ write_fails
    IN  IF resolved.raised THEN Outcome(TRUE, <<>>, flag, resolved.handles)
        ELSE IF method1 # <<>> /\ write_fails
             THEN Outcome(TRUE, <<>>, flag, resolved.handles)
        ELSE IF method1 = <<>> /\ ~flag
             THEN Outcome(FALSE,
                      IF scan_raises THEN <<>>
                      ELSE scanned_images(media_files, image_positions, 1),
                      TRUE,
                      resolved.handles + with_ZipFile(scan_raises))
        ELSE Outcome(FALSE, method1, flag, resolved.handles)

(* image_positions = self._parse_drawing_positions(sheet_name), then the    *)
(* two methods.                                                             *)
extract_images(f, worksheet, flag, write_fails) ==
    images_info_with(f, _parse_drawing_positions(f), worksheet, flag, write_fails)

RECURSIVE extract_charts(_)
extract_charts(charts) ==
    IF charts = <<>> THEN <<>>
    ELSE <<[type |-> Head(charts).type, title |-> Head(charts).title]>>
         \o extract_charts(Tail(charts))

extract_sheet_properties(worksheet) ==
    [title |-> worksheet.title,
     max_row |-> IF worksheet.cells = <<>> THEN 1
                 ELSE Max({worksheet.cells[i].row : i \in DOMAIN worksheet.cells}),
     max_column |-> IF worksheet.cells = <<>> THEN 1
                    ELSE Max({worksheet.cells[i].col : i \in DOMAIN worksheet.cells})]

(* Mutant: every cell of the walk is kept. *)
RECURSIVE extract_cells_dense(_)
extract_cells_dense(cells) ==
    IF cells = <<>> THEN <<>>
    ELSE <<[key |-> coordinate(Head(cells).col, Head(cells).row),
            data |-> extract_cell_value(Head(cells)),
            style |-> extract_cell_style(Head(cells))]>>
         \o extract_cells_dense(Tail(cells))

(* for row in worksheet.iter_rows(): for cell in row: ... *)
RECURSIVE extract_cells(_)
extract_cells(cells) ==
    IF cells = <<>> THEN <<>>
    ELSE (IF Head(cells).value.k # "none" \/ Head(cells).has_style
          THEN <<[key |-> coordinate(Head(cells).col, Head(cells).row),
                  data |-> extract_cell_value(Head(cells)),
                  style |-> extract_cell_style(Head(cells))]>>
          ELSE <<>>) \o extract_cells(Tail(cells))

(* The Snapshot of extract_worksheet, imgs being the outcome of its call of  *)
(* extract_images.                                                          *)
sheet_data_with(worksheet, imgs) ==
    IF imgs.raised THEN Outcome(TRUE, None, imgs.flag, imgs.handles)
    ELSE Outcome(FALSE,
             [properties |-> extract_sheet_properties(worksheet),
              cells |-> extract_cells(worksheet.cells),
              merged_cells |-> extract_merged_cells(worksheet.merged),
              hyperlinks |-> extract_hyperlinks(worksheet.cells),
              comments |-> extract_comments(worksheet.cells),
              images |-> imgs.value,
              charts |-> extract_charts(worksheet.charts)],
             imgs.flag, imgs.handles)

extract_worksheet(f, worksheet, flag, write_fails) ==
    sheet_data_with(worksheet, extract_images(f, worksheet, flag, write_fails))

sheetnames(f) == [i \in DOMAIN f.sheets |-> f.sheets[i].title]

extract_workbook_properties(f) ==
    [sheetnames |-> sheetnames(f),
     active_sheet |-> IF f.sheets = <<>> THEN "" ELSE f.sheets[1].title,
     source_file |-> None]

(* self.extracted_data = {} *)
NoData ==
    [workbook_properties |-> [sheetnames |-> <<>>, active_sheet |-> "", source_file |-> None],
     sheets |-> <<>>]

(* The loop of extract_all over the sheets; the value is                    *)
(* self.extracted_data["sheets"] when the loop ends or raises.              *)
add_handles(outcome, n) == [outcome EXCEPT !.handles = @ + n]

RECURSIVE extract_sheets(_, _, _, _, _)

(* One turn of the loop, r being the outcome of extract_worksheet for the   *)
(* i-th sheet.                                                              *)
sheets_with(f, i, sheets, r, write_fails) ==
    IF r.raised THEN Outcome(TRUE, sheets, r.flag, r.handles)
    ELSE add_handles(extract_sheets(f, i + 1,
                         Append(sheets, [name |-> f.sheets[i].title, data |-> r.value]),
                         r.flag, write_fails),
                     r.handles)

extract_sheets(f, i, sheets, flag, write_fails) ==
    IF i > Len(f.sheets) THEN Outcome(FALSE, sheets, flag, 0)
    ELSE sheets_with(f, i, sheets,
                     extract_worksheet(f, f.sheets[i], flag, write_fails), write_fails)

----------------------------------------------------------------------------
(* Layout reconstructor: generate_markdown.  A line of md_lines is a       *)
(* record: t is the kind of line, s the texts it is made of, and row the    *)
(* data row a table line renders (0 for every other line).                  *)

Line(t, row, s) == [t |-> t, row |-> row, s |-> s]

Blank == Line("blank", 0, <<>>)

(* "| " + " | ".join(all_cols) + " |" and "|" + "|".join(["---"] * n) + "|" *)
table_header(all_cols) ==
    <<Line("header", 0, all_cols),
      Line("separator", 0, [i \in DOMAIN all_cols |-> <<"---">>])>>

(* **Image at ...:**, blank, ![Image](filename), blank *)
image_block(img_info) ==
    <<Line("label", 0, <<img_info.position_text>>),
      Blank,
      Line("image", 0, <<img_info.filename>>),
      Blank>>

RECURSIVE image_blocks(_)
image_blocks(group) ==
    IF group = <<>> THEN <<>>
    ELSE image_block(Head(group)) \o image_blocks(Tail(group))

(* Mutant: the 0-based anchor row is used as the display row. *)
display_row_of_zero_based(position) == position[2]

display_row_of(position) == position[2] + 1

position_text_of(position) ==
    get_column_letter(position[1] + 1) \o str_int(position[2] + 1)
    \o <<" to ">> \o get_column_letter(position[3] + 1) \o str_int(position[4] + 1)

(* image_by_row after the first n images: display row -> list of           *)
(* {filename, position_text}.                                               *)
RECURSIVE image_by_row_of(_, _)
image_by_row_of(images, n) ==
    IF n = 0 THEN <<>>
    ELSE LET image_by_row == image_by_row_of(images, n - 1)
             img == images[n]
             position == img.position
         IN  IF position # None
             THEN LET display_row == display_row_of(position)
                      group == IF display_row \in DOMAIN image_by_row
                               THEN image_by_row[display_row] ELSE <<>>
                      info == [filename |-> img.filename,
                               position_text |-> position_text_of(position)]
                  IN  [r \in DOMAIN image_by_row \cup {display_row} |->
                          IF r = display_row THEN Append(group, info)
                          ELSE image_by_row[r]]
             ELSE image_by_row

(* Mutant: the column is the first character of the reference. *)
cell_col_first(cell_ref) == <<Head(cell_ref)>>

cell_col(cell_ref) == filter_isalpha(cell_ref)

cell_row(cell_ref) == int(filter_isdigit(cell_ref))

(* rows_dict[row][col]: the data of the last entry of cells with that row   *)
(* and column.                                                              *)
rows_dict_get(cells, row, col) ==
    LET I == {i \in DOMAIN cells : cell_row(cells[i].key) = row
                                   /\ cell_col(cells[i].key) = col}
    IN  IF I = {} THEN [present |-> FALSE, data |-> extract_cell_value([value |-> NoneValue])]
        ELSE [present |-> TRUE, data |-> cells[Max(I)].data]

(* Mutant: the columns are sorted as spreadsheet columns, shorter first. *)
RECURSIVE sorted_columns(_)
sorted_columns(S) ==
    IF S = {} THEN <<>>
    ELSE LET m == CHOOSE x \in S : \A y \in S \ {x} :
                      Len(x) < Len(y) \/ (Len(x) = Len(y) /\ LexLess(x, y))
         IN  <<m>> \o sorted_columns(S \ {m})

all_cols_of_as_columns(cells) == sorted_columns({cell_col(cells[i].key) : i \in DOMAIN cells})

all_cols_of(cells) == sorted_str({cell_col(cells[i].key) : i \in DOMAIN cells})

sorted_rows_of(cells) == sorted_int({cell_row(cells[i].key) : i \in DOMAIN cells})

(* Mutant: the newlines are kept. *)
escape_str_pipes_only(value) == replace(value, "|", <<"\\", "|">>)

(* value.replace("|", "\\|").replace("\n", " ") *)
escape_str(value) == replace(replace(value, "|", <<"\\", "|">>), "\n", <<" ">>)

(* Format value for markdown *)
format_value(value) ==
    IF value.k = "none" THEN <<>>
    ELSE IF value.k = "str" THEN escape_str(value.s)
    ELSE LET text == str_int(value.n)
         IN  IF Contains(text, "datetime")
             THEN replace(replace(text, "datetime.datetime(", <<>>), ")", <<>>)
             ELSE text

RECURSIVE row_values(_, _, _)
row_values(cells, row_num, cols) ==
    IF cols = <<>> THEN <<>>
    ELSE LET c == rows_dict_get(cells, row_num, Head(cols))
         IN  <<IF c.present THEN format_value(c.data.value) ELSE <<>>>>
             \o row_values(cells, row_num, Tail(cols))

(* Mutant: the table is not restarted after the images. *)
RECURSIVE images_between_no_restart(_, _, _, _)
images_between_no_restart(image_by_row, all_cols, lo, hi) ==
    IF lo >= hi THEN <<>>
    ELSE (IF lo \in DOMAIN image_by_row
          THEN <<Blank>> \o image_blocks(image_by_row[lo])
          ELSE <<>>)
         \o images_between_no_restart(image_by_row, all_cols, lo + 1, hi)

(* for check_row in range(lo, hi): the groups between two data rows, each   *)
(* followed by a restarted table.                                           *)
RECURSIVE images_between(_, _, _, _)
images_between(image_by_row, all_cols, lo, hi) ==
    IF lo >= hi THEN <<>>
    ELSE (IF lo \in DOMAIN image_by_row
          THEN <<Blank>> \o image_blocks(image_by_row[lo]) \o table_header(all_cols)
          ELSE <<>>)
         \o images_between(image_by_row, all_cols, lo + 1, hi)

(* Mutant: the groups after the last data row, by descending row. *)
RECURSIVE images_after_descending(_, _, _)
images_after_descending(image_by_row, lo, hi) ==
    IF lo >= hi THEN <<>>
    ELSE images_after_descending(image_by_row, lo + 1, hi)
         \o (IF lo \in DOMAIN image_by_row
             THEN <<Blank>> \o image_blocks(image_by_row[lo])
             ELSE <<>>)

(* for check_row in range(lo, hi): the groups after the last data row. *)
RECURSIVE images_after(_, _, _)
images_after(image_by_row, lo, hi) ==
    IF lo >= hi THEN <<>>
    ELSE (IF lo \in DOMAIN image_by_row
          THEN <<Blank>> \o image_blocks(image_by_row[lo])
          ELSE <<>>)
         \o images_after(image_by_row, lo + 1, hi)

(* Mutant: the table is restarted after the group of the last row too. *)
RECURSIVE table_rows_always_restarted(_, _, _, _, _)
table_rows_always_restarted(cells, image_by_row, all_cols, sorted_rows, i) ==
    IF i > Len(sorted_rows) THEN <<>>
    ELSE LET row_num == sorted_rows[i]
             last_row == IF i = 1 THEN 0 ELSE sorted_rows[i - 1]
         IN  images_between(image_by_row, all_cols, last_row + 1, row_num)
             \o <<Line("row", row_num, row_values(cells, row_num, all_cols))>>
             \o (IF row_num + 1 \in DOMAIN image_by_row
                 THEN <<Blank>> \o image_blocks(image_by_row[row_num + 1])
                      \o table_header(all_cols)
                 ELSE <<>>)
             \o table_rows_always_restarted(cells, image_by_row, all_cols,
                                            sorted_rows, i + 1)

(* Mutant: the group keyed row_num + 1 is emitted before the row's line. *)
RECURSIVE table_rows_group_first(_, _, _, _, _)
table_rows_group_first(cells, image_by_row, all_cols, sorted_rows, i) ==
    IF i > Len(sorted_rows) THEN <<>>
    ELSE LET row_num == sorted_rows[i]
             last_row == IF i = 1 THEN 0 ELSE sorted_rows[i - 1]
         IN  images_between(image_by_row, all_cols, last_row + 1, row_num)
             \o (IF row_num + 1 \in DOMAIN image_by_row
                 THEN <<Blank>> \o image_blocks(image_by_row[row_num + 1])
                      \o table_header(all_cols)
                 ELSE <<>>)
             \o <<Line("row", row_num, row_values(cells, row_num, all_cols))>>
             \o table_rows_group_first(cells, image_by_row, all_cols,
                                       sorted_rows, i + 1)

(* for row_num in sorted_rows, from the i-th row on. *)
RECURSIVE table_rows(_, _, _, _, _)
table_rows(cells, image_by_row, all_cols, sorted_rows, i) ==
    IF i > Len(sorted_rows) THEN <<>>
    ELSE LET row_num == sorted_rows[i]
             last_row == IF i = 1 THEN 0 ELSE sorted_rows[i - 1]
         IN  images_between(image_by_row, all_cols, last_row + 1, row_num)
             \o <<Line("row", row_num, row_values(cells, row_num, all_cols))>>
             \o (IF row_num + 1 \in DOMAIN image_by_row
                 THEN <<Blank>> \o image_blocks(image_by_row[row_num + 1])
                      \o (IF row_num < sorted_rows[Len(sorted_rows)]
                          THEN table_header(all_cols) ELSE <<>>)
                 ELSE <<>>)
             \o table_rows(cells, image_by_row, all_cols, sorted_rows, i + 1)

(* Mutant: the images are emitted last first. *)
RECURSIVE images_only_reversed(_)
images_only_reversed(images) ==
    IF images = <<>> THEN <<>>
    ELSE images_only_reversed(Tail(images))
         \o (IF Head(images).position # None
             THEN <<Line("label", 0, <<position_text_of(Head(images).position)>>)>>
             ELSE <<>>)
         \o <<Blank, Line("image", 0, <<Head(images).filename>>), Blank>>

(* elif images: each image directly, labeled when its position is known. *)
RECURSIVE images_only(_)
images_only(images) ==
    IF images = <<>> THEN <<>>
    ELSE (IF Head(images).position # None
          THEN <<Line("label", 0, <<position_text_of(Head(images).position)>>)>>
          ELSE <<>>)
         \o <<Blank, Line("image", 0, <<Head(images).filename>>), Blank>>
         \o images_only(Tail(images))

RECURSIVE hyperlink_lines(_)
hyperlink_lines(hyperlinks) ==
    IF hyperlinks = <<>> THEN <<>>
    ELSE <<Line("bullet", 0, <<Head(hyperlinks).key,
                               IF Head(hyperlinks).display.k = "str"
                               THEN Head(hyperlinks).display.s
                               ELSE IF Head(hyperlinks).display.k = "num"
                               THEN str_int(Head(hyperlinks).display.n)
                               ELSE <<"None">>,
                               Head(hyperlinks).url>>)>>
         \o hyperlink_lines(Tail(hyperlinks))

RECURSIVE comment_lines(_)
comment_lines(comments) ==
    IF comments = <<>> THEN <<>>
    ELSE <<Line("bullet", 0, <<Head(comments).key,
                               replace(Head(comments).text, "\n", <<" ">>)>>)>>
         \o comment_lines(Tail(comments))

(* Mutant: the blank line that ends the table is appended for every sheet. *)
sheet_markdown_table_end_always(sheet_name, sheet_data) ==
    LET images == sheet_data.images
        image_by_row == image_by_row_of(images, Len(images))
        cells == sheet_data.cells
        all_cols == all_cols_of(cells)
        sorted_rows == sorted_rows_of(cells)
        max_row == sorted_rows[Len(sorted_rows)]
    IN  <<Line("h2", 0, <<(<<sheet_name>>)>>), Blank>>
        \o (IF cells # <<>>
            THEN table_header(all_cols)
                 \o table_rows(cells, image_by_row, all_cols, sorted_rows, 1)
                 \o images_after(image_by_row, max_row + 1,
                        IF DOMAIN image_by_row # {}
                        THEN Max(DOMAIN image_by_row) + 1 ELSE max_row + 1)
            ELSE IF images # <<>> THEN images_only(images)
            ELSE <<>>)
        \o <<Blank>>
        \o (IF sheet_data.hyperlinks # <<>>
            THEN <<Line("h3", 0, <<(<<"Hyperlinks">>)>>), Blank>>
                 \o hyperlink_lines(sheet_data.hyperlinks) \o <<Blank>>
            ELSE <<>>)
        \o (IF sheet_data.comments # <<>>
            THEN <<Line("h3", 0, <<(<<"Comments">>)>>), Blank>>
                 \o comment_lines(sheet_data.comments) \o <<Blank>>
            ELSE <<>>)

(* The body of the loop of generate_markdown for one sheet. *)
sheet_markdown(sheet_name, sheet_data) ==
    LET images == sheet_data.images
        image_by_row == image_by_row_of(images, Len(images))
        cells == sheet_data.cells
        all_cols == all_cols_of(cells)
        sorted_rows == sorted_rows_of(cells)
        max_row == sorted_rows[Len(sorted_rows)]
    IN  <<Line("h2", 0, <<(<<sheet_name>>)>>), Blank>>
        \o (IF cells # <<>>
            THEN table_header(all_cols)
                 \o table_rows(cells, image_by_row, all_cols, sorted_rows, 1)
                 \o images_after(image_by_row, max_row + 1,
                        IF DOMAIN image_by_row # {}
                        THEN Max(DOMAIN image_by_row) + 1 ELSE max_row + 1)
                 \o <<Blank>>
            ELSE IF images # <<>> THEN images_only(images)
            ELSE <<>>)
        \o (IF sheet_data.hyperlinks # <<>>
            THEN <<Line("h3", 0, <<(<<"Hyperlinks">>)>>), Blank>>
                 \o hyperlink_lines(sheet_data.hyperlinks) \o <<Blank>>
            ELSE <<>>)
        \o (IF sheet_data.comments # <<>>
            THEN <<Line("h3", 0, <<(<<"Comments">>)>>), Blank>>
                 \o comment_lines(sheet_data.comments) \o <<Blank>>
            ELSE <<>>)

RECURSIVE sheets_markdown(_)
sheets_markdown(sheets) ==
    IF sheets = <<>> THEN <<>>
    ELSE sheet_markdown(Head(sheets).name, Head(sheets).data)
         \o sheets_markdown(Tail(sheets))

markdown_of(data) ==
    <<Line("h1", 0, <<(<<"workbook.xlsx">>)>>), Blank>> \o sheets_markdown(data.sheets)

----------------------------------------------------------------------------
(* Serializer: json.dump(self.extracted_data, ..., default=str) and the     *)
(* summary.  The document is modelled as the sequence of its entries.       *)

json_str(s) ==
    <<"\"">> \o replace(replace(replace(s, "\\", <<"\\", "\\">>), "\"", <<"\\", "\"">>),
                        "\n", <<"\\", "n">>) \o <<"\"">>

json_value(value) ==
    IF value.k = "none" THEN <<"null">>
    ELSE IF value.k = "str" THEN json_str(value.s)
    ELSE str_int(value.n)

json_optional(text) == IF text = None THEN <<"null">> ELSE json_str(text)

json_position(position) ==
    IF position = None THEN <<"null">>
    ELSE <<"[">> \o join(<<", ">>, [i \in DOMAIN position |-> str_int(position[i])]) \o <<"]">>

json_sheet(name, data) ==
    <<(<<"sheet">> \o json_str(<<name>>)),
      (<<"title">> \o json_str(<<data.properties.title>>)),
      (<<"max_row">> \o str_int(data.properties.max_row)),
      (<<"max_column">> \o str_int(data.properties.max_column))>>
    \o [i \in DOMAIN data.cells |->
          <<"cell">> \o json_str(data.cells[i].key) \o json_value(data.cells[i].data.value)
          \o json_optional(data.cells[i].data.formula)
          \o <<IF data.cells[i].style.styled THEN "styled" ELSE "plain">>]
    \o [i \in DOMAIN data.merged_cells |-> <<"merged">> \o json_str(data.merged_cells[i])]
    \o [i \in DOMAIN data.hyperlinks |->
          <<"hyperlink">> \o json_str(data.hyperlinks[i].key)
          \o json_str(data.hyperlinks[i].url) \o json_value(data.hyperlinks[i].display)]
    \o [i \in DOMAIN data.comments |->
          <<"comment">> \o json_str(data.comments[i].key) \o json_str(data.comments[i].text)]
    \o [i \in DOMAIN data.images |->
          <<"image">> \o json_str(data.images[i].filename)
          \o json_str(<<data.images[i].format>>) \o json_optional(data.images[i].source)
          \o json_position(data.images[i].position)]
    \o [i \in DOMAIN data.charts |->
          <<"chart">> \o json_str(<<data.charts[i].type>>) \o json_optional(data.charts[i].title)]

RECURSIVE json_sheets(_)
json_sheets(sheets) ==
    IF sheets = <<>> THEN <<>>
    ELSE json_sheet(Head(sheets).name, Head(sheets).data) \o json_sheets(Tail(sheets))

json_of(data) ==
    <<(<<"sheetnames">> \o [i \in DOMAIN data.workbook_properties.sheetnames |->
                              data.workbook_properties.sheetnames[i]]),
      (<<"active_sheet">> \o json_str(<<data.workbook_properties.active_sheet>>)),
      (<<"source_file">> \o json_optional(data.workbook_properties.source_file))>>
    \o json_sheets(data.sheets)

summary_sheet(name, data) ==
    <<(<<"--- Sheet: ", name, " ---">>),
      (<<"  Dimensions: ">> \o str_int(data.properties.max_row) \o <<" rows x ">>
          \o str_int(data.properties.max_column) \o <<" columns">>),
      (<<"  Cells with data: ">> \o str_int(Len(data.cells))),
      (<<"  Merged cells: ">> \o str_int(Len(data.merged_cells))),
      (<<"  Hyperlinks: ">> \o str_int(Len(data.hyperlinks))),
      (<<"  Comments: ">> \o str_int(Len(data.comments))),
      (<<"  Images: ">> \o str_int(Len(data.images))),
      (<<"  Charts: ">> \o str_int(Len(data.charts)))>>

RECURSIVE summary_sheets(_)
summary_sheets(sheets) ==
    IF sheets = <<>> THEN <<>>
    ELSE summary_sheet(Head(sheets).name, Head(sheets).data) \o summary_sheets(Tail(sheets))

summary_of(data) ==
    <<(<<"EXTRACTION SUMMARY">>),
      (<<"Workbook: ", "workbook.xlsx">>),
      (<<"Active Sheet: ">> \o <<IF data.workbook_properties.active_sheet = ""
                                 THEN "N/A" ELSE data.workbook_properties.active_sheet>>),
      (<<"Total Sheets: ">> \o str_int(Len(data.sheets)))>>
    \o summary_sheets(data.sheets)

----------------------------------------------------------------------------
(* The operations of ExcelExtractor *)

NotWritten == <<>>

NoWrites == [o \in {"json", "md", "summary"} |-> 0]

Call(op, sheet, fault, raised, error) ==
    [op |-> op, sheet |-> sheet, fault |-> fault, raised |-> raised, error |-> error]

(* What can go wrong in the environment of an extraction call: the workbook *)
(* cannot be loaded, or the output directory cannot be written.             *)
Faults == {"none", "load", "write"}

LoadError == <<"load_workbook failed">>
WriteError == <<"cannot write image file">>

(* Mutant: the message names the missing sheet only. *)
not_found_message_unlisted(sheet_name, names) ==
    <<"Sheet '", sheet_name, "' not found.">>

(* f"Sheet '{sheet_name}' not found. Available sheets: {available_sheets}" *)
not_found_message(sheet_name, names) ==
    <<"Sheet '", sheet_name, "' not found. Available sheets: ">>
    \o join(<<", ">>, [i \in DOMAIN names |-> <<names[i]>>])

(* The end of extract_all, r being the outcome of its loop over the sheets. *)
extract_all_ends(fault, r) ==
    /\ extracted_data' =
           [workbook_properties |-> extract_workbook_properties(file),
            sheets |-> r.value]
    /\ images_extracted_from_zip' = r.flag
    /\ open_handles' = open_handles + r.handles
    /\ last_call' = Call("extract_all", "", fault, r.raised,
                         IF r.raised THEN WriteError ELSE <<>>)

extract_all(fault) ==
    /\ calls < MaxCalls
    /\ calls' = calls + 1
    /\ writes' = NoWrites
    /\ UNCHANGED <<file, out_json, out_md, out_summary>>
    /\ IF fault = "load"
       THEN /\ last_call' = Call("extract_all", "", fault, TRUE, LoadError)
            /\ UNCHANGED <<extracted_data, images_extracted_from_zip, open_handles>>
       ELSE extract_all_ends(fault,
                extract_sheets(file, 1, <<>>, images_extracted_from_zip, fault = "write"))

(* The end of extract_single_sheet, r being the outcome of extract_worksheet *)
(* for the sheet.                                                           *)
extract_single_sheet_ends(sheet_name, fault, r) ==
    /\ images_extracted_from_zip' = r.flag
    /\ open_handles' = open_handles + r.handles
    /\ last_call' = Call("extract_single_sheet", sheet_name, fault, r.raised,
                         IF r.raised THEN WriteError ELSE <<>>)
    /\ extracted_data' =
           IF r.raised THEN extracted_data
           ELSE [workbook_properties |->
                     [sheetnames |-> <<sheet_name>>,
                      active_sheet |-> sheet_name,
                      source_file |-> <<"workbook.xlsx">>],
                 sheets |-> <<[name |-> sheet_name, data |-> r.value]>>]

extract_single_sheet(sheet_name, fault) ==
    /\ calls < MaxCalls
    /\ calls' = calls + 1
    /\ writes' = NoWrites
    /\ UNCHANGED <<file, out_json, out_md, out_summary>>
    /\ IF fault = "load"
       THEN /\ last_call' = Call("extract_single_sheet", sheet_name, fault, TRUE, LoadError)
            /\ UNCHANGED <<extracted_data, images_extracted_from_zip, open_handles>>
       ELSE IF \A i \in DOMAIN file.sheets : file.sheets[i].title # sheet_name
       THEN /\ last_call' = Call("extract_single_sheet", sheet_name, fault, TRUE,
                                 not_found_message(sheet_name, sheetnames(file)))
            /\ UNCHANGED <<extracted_data, images_extracted_from_zip, open_handles>>
       ELSE extract_single_sheet_ends(sheet_name, fault,
                extract_worksheet(file,
                    file.sheets[CHOOSE i \in DOMAIN file.sheets :
                                    file.sheets[i].title = sheet_name],
                    images_extracted_from_zip, fault = "write"))

save_to_json ==
    /\ calls < MaxCalls
    /\ calls' = calls + 1
    /\ out_json' = json_of(extracted_data)
    /\ writes' = [writes EXCEPT !["json"] = @ + 1]
    /\ last_call' = Call("save_to_json", "", "none", FALSE, <<>>)
    /\ UNCHANGED <<file, extracted_data, images_extracted_from_zip, open_handles,
                   out_md, out_summary>>

(* Mutant: rendering consumes the images of the extracted data. *)
generate_markdown_consuming ==
    /\ calls < MaxCalls
    /\ calls' = calls + 1
    /\ out_md' = markdown_of(extracted_data)
    /\ extracted_data' =
           [extracted_data EXCEPT !.sheets =
               [i \in DOMAIN extracted_data.sheets |->
                   [extracted_data.sheets[i] EXCEPT !.data.images = <<>>]]]
    /\ writes' = [writes EXCEPT !["md"] = @ + 1]
    /\ last_call' = Call("generate_markdown", "", "none", FALSE, <<>>)
    /\ UNCHANGED <<file, images_extracted_from_zip, open_handles, out_json, out_summary>>

generate_markdown ==
    /\ calls < MaxCalls
    /\ calls' = calls + 1
    /\ out_md' = markdown_of(extracted_data)
    /\ writes' = [writes EXCEPT !["md"] = @ + 1]
    /\ last_call' = Call("generate_markdown", "", "none", FALSE, <<>>)
    /\ UNCHANGED <<file, extracted_data, images_extracted_from_zip, open_handles,
                   out_json, out_summary>>

(* Mutant: the summary ends the life of the one-shot flag. *)
generate_summary_resetting ==
    /\ calls < MaxCalls
    /\ calls' = calls + 1
    /\ out_summary' = summary_of(extracted_data)
    /\ images_extracted_from_zip' = FALSE
    /\ writes' = [writes EXCEPT !["summary"] = @ + 1]
    /\ last_call' = Call("generate_summary", "", "none", FALSE, <<>>)
    /\ UNCHANGED <<file, extracted_data, open_handles, out_json, out_md>>

generate_summary ==
    /\ calls < MaxCalls
    /\ calls' = calls + 1
    /\ out_summary' = summary_of(extracted_data)
    /\ writes' = [writes EXCEPT !["summary"] = @ + 1]
    /\ last_call' = Call("generate_summary", "", "none", FALSE, <<>>)
    /\ UNCHANGED <<file, extracted_data, images_extracted_from_zip, open_handles,
                   out_json, out_md>>

----------------------------------------------------------------------------
(* The workbook files the extractor is run on *)

SheetTitles == <<"Data", "Sheet1", "Sheet2", "Sheet3", "Sheet4">>

(* The names a caller asks for: the sheets of the workbook and one name    *)
(* that is not a sheet of it.                                               *)
RequestedNames(f) == {SheetTitles[i] : i \in 1..(Len(f.sheets) + 1)}

Cell(col, row, value, has_style) ==
    [col |-> col, row |-> row, value |-> value, has_style |-> has_style,
     hyperlink |-> None, comment |-> None]

Worksheet(title, cells, images) ==
    [title |-> title, cells |-> cells, merged |-> <<>>, images |-> images,
     charts |-> <<>>]

Image(format, blob) == [format |-> format, blob |-> blob]

Elem(col, row) == [present |-> TRUE, ok |-> TRUE, col |-> col, row |-> row]
NoElem == [present |-> FALSE, ok |-> FALSE, col |-> 0, row |-> 0]
BadElem == [present |-> TRUE, ok |-> FALSE, col |-> 0, row |-> 0]

OneCellAnchor(col, row) == [kind |-> "one", from |-> Elem(col, row), to |-> NoElem]
TwoCellAnchor(col, row, to_col, to_row) ==
    [kind |-> "two", from |-> Elem(col, row), to |-> Elem(to_col, to_row)]

Fragment(anchors) == [well_formed |-> TRUE, anchors |-> anchors]
Malformed == [well_formed |-> FALSE, anchors |-> <<>>]

MediaName(i) == <<"xl/media/", "image">> \o str_int(i) \o <<".", "png">>

(* n attached images: the blobs of the media files first + 1 .. first + n. *)
attached(first, n) == [i \in 1..n |-> Image("png", first + i)]

media(n) == [i \in 1..n |-> MediaName(i)]

WorkbookFile(sheets, drawings, namelist) ==
    [sheets |-> sheets, drawings |-> drawings, namelist |-> namelist]

RECURSIVE Sum(_, _)
Sum(k, n) == IF n = 0 THEN 0 ELSE Sum(k, n - 1) + k[n]

(* n sheets, k[i] attached images on sheet i, m media files in the archive: *)
(* every attached image is a media file of the archive, and the archive may *)
(* hold media files that no sheet has attached.                             *)
Shapes ==
    { sh \in [n : 1..MaxSheets, k : [1..MaxSheets -> 0..MaxAttached], m : 0..MaxMedia] :
        /\ Sum(sh.k, sh.n) <= sh.m
        /\ \A i \in 1..MaxSheets : i > sh.n => sh.k[i] = 0 }

(* Workbooks of several sheets, each with or without attached images (the  *)
(* images openpyxl could load), with or without anchors in the archive.     *)
StrategyWorkbooks ==
    { WorkbookFile(
          [i \in 1..sh.n |-> Worksheet(SheetTitles[i],
                                       <<Cell(1, 1, StrValue(<<"x">>), FALSE)>>,
                                       attached(Sum(sh.k, i - 1), sh.k[i]))],
          d,
          media(sh.m)) :
        sh \in Shapes,
        d \in { <<>>, <<Fragment(<<TwoCellAnchor(0, 2, 1, 3), OneCellAnchor(0, 4)>>)>> } }

(* All rows between 1 and the last populated row, as iter_rows walks them:  *)
(* the rows of R hold a value in column A, the others are empty.            *)
column_cells(R) ==
    IF R = {} THEN <<>>
    ELSE [r \in 1..Max(R) |->
             Cell(1, r, IF r \in R THEN StrValue(<<"v">> \o str_int(r)) ELSE NoneValue,
                  FALSE)]

RECURSIVE SeqsUpTo(_, _)
SeqsUpTo(S, n) ==
    IF n = 0 THEN {<<>>}
    ELSE LET shorter == SeqsUpTo(S, n - 1)
         IN  shorter \cup {Append(q, x) : q \in {t \in shorter : Len(t) = n - 1}, x \in S}

(* One sheet: any set of populated rows, and images anchored at any rows    *)
(* or not anchored at all.                                                  *)
LayoutWorkbooks ==
    { WorkbookFile(<<Worksheet("Data", column_cells(R), attached(0, MaxAttached))>>,
                   <<Fragment([i \in DOMAIN rows |-> OneCellAnchor(1, rows[i])])>>,
                   media(MaxAttached)) :
        R \in SUBSET (1..MaxRow), rows \in SeqsUpTo(0..MaxRow, MaxAnchors) }
    \cup
    { WorkbookFile(<<Worksheet("Data", column_cells(R), <<>>)>>, <<>>, <<>>) :
        R \in SUBSET (1..MaxRow) }

Chars == {"a", "|", "\n", "\\"}

(* The cells of the bounding box 1..max_row x 1..max_col, row by row; the   *)
(* cells of `given` are as given, the others empty and unstyled.            *)
grid(given, max_row, max_col) ==
    [i \in 1..(max_row * max_col) |->
        LET row == ((i - 1) \div max_col) + 1
            col == ((i - 1) % max_col) + 1
        IN  IF \E c \in given : c.row = row /\ c.col = col
            THEN CHOOSE c \in given : c.row = row /\ c.col = col
            ELSE Cell(col, row, NoneValue, FALSE)]

(* One sheet without any cell, and one whose only cell is empty, unstyled   *)
(* and carries a comment.                                                   *)
BlankWorkbooks ==
    { WorkbookFile(<<Worksheet("Data", <<>>, <<>>)>>, <<>>, <<>>),
      WorkbookFile(<<Worksheet("Data",
                               <<[Cell(1, 1, NoneValue, FALSE)
                                    EXCEPT !.comment = <<"to be filled">>]>>,
                               <<>>)>>,
                   <<>>, <<>>) }

(* One sheet: a text of any characters in A1, alone or with styled, numeric *)
(* and far cells (column AA, row 12).                                       *)
CellWorkbooks ==
    BlankWorkbooks \cup
    { WorkbookFile(<<Worksheet("Data", cells, <<>>)>>, <<>>, <<>>) :
        cells \in UNION { { grid({Cell(1, 1, StrValue(text), FALSE)}, 1, 1),
                            grid({Cell(1, 1, StrValue(text), TRUE),
                                  Cell(2, 2, NoneValue, TRUE),
                                  Cell(27, 1, NumValue(120), FALSE)}, 2, 27),
                            grid({Cell(2, 1, StrValue(text), FALSE),
                                  Cell(1, 12, NumValue(7), TRUE)}, 12, 2) } :
                          text \in SeqsUpTo(Chars, MaxLen) } }

AnchorChoices ==
    { OneCellAnchor(0, 1), TwoCellAnchor(1, 2, 2, 3),
      [kind |-> "two", from |-> BadElem, to |-> Elem(2, 3)],
      [kind |-> "one", from |-> NoElem, to |-> NoElem] }

(* One sheet with attached images; drawing fragments 1, 2 and 10 absent,    *)
(* malformed or holding anchors.                                            *)
DrawingWorkbooks ==
    { WorkbookFile(<<[title |-> "Data",
                      cells |-> <<[col |-> 1, row |-> 1, value |-> NumValue(1),
                                   has_style |-> FALSE,
                                   hyperlink |-> <<"http://example.org">>,
                                   comment |-> <<"checked">>]>>,
                      merged |-> <<(<<"A1:B1">>)>>,
                      images |-> attached(0, MaxAttached + 1),
                      charts |-> <<>>]>>,
                   [n \in {n \in {1, 2, 10} : d[n] # <<>>} |-> d[n][1]],
                   media(MaxAttached + 1)) :
        d \in { [n \in {1, 2, 10} |-> IF n = 1 THEN d1 ELSE IF n = 2 THEN d2 ELSE d10] :
                  d1 \in {<<>>, <<Malformed>>}
                         \cup {<<Fragment(a)>> : a \in SeqsUpTo(AnchorChoices, MaxAnchors)},
                  d2 \in {<<>>, <<Malformed>>, <<Fragment(<<OneCellAnchor(5, 6)>>)>>,
                          <<Fragment(<<OneCellAnchor(5, 6), TwoCellAnchor(6, 7, 8, 9)>>)>>},
                  d10 \in {<<>>, <<Fragment(<<OneCellAnchor(7, 8), OneCellAnchor(8, 9),
                                              OneCellAnchor(9, 9)>>)>>} } }

(* Sheets with or without an attached image, over an archive whose first   *)
(* drawing fragment is absent, well-formed, malformed, or holds an anchor   *)
(* without col and row.                                                     *)
ArchiveWorkbooks ==
    { WorkbookFile(
          [i \in 1..n |-> Worksheet(SheetTitles[i],
                                    <<Cell(1, 1, StrValue(<<"x">>), FALSE)>>,
                                    IF i \in A THEN attached(i - 1, 1) ELSE <<>>)],
          d,
          media(MaxSheets)) :
        n \in 1..MaxSheets,
        A \in SUBSET (1..MaxSheets),
        d \in { <<>>,
                <<Fragment(<<OneCellAnchor(0, 1)>>)>>,
                <<Malformed>>,
                <<Fragment(<<OneCellAnchor(0, 1),
                             [kind |-> "two", from |-> BadElem, to |-> Elem(2, 3)]>>)>>,
                <<Fragment(<<TwoCellAnchor(0, 1, 2, 3)>>), Malformed>> } }

InitExtractor ==
    /\ extracted_data = NoData
    /\ images_extracted_from_zip = FALSE
    /\ open_handles = 0
    /\ out_json = NotWritten
    /\ out_md = NotWritten
    /\ out_summary = NotWritten
    /\ writes = NoWrites
    /\ last_call = Call("init", "", "none", FALSE, <<>>)
    /\ calls = 0

Init ==
    /\ file \in StrategyWorkbooks
    /\ InitExtractor

Next ==
    \/ \E fault \in Faults : extract_all(fault)
    \/ \E sheet_name \in RequestedNames(file), fault \in Faults :
           extract_single_sheet(sheet_name, fault)
    \/ save_to_json
    \/ generate_markdown
    \/ generate_summary

Spec == Init /\ [][Next]_vars

(* Extraction followed by rendering, on workbooks of one sheet that load    *)
(* and an output directory that can be written.                             *)
NextRender ==
    \/ extract_all("none")
    \/ generate_markdown

InitLayout ==
    /\ file \in LayoutWorkbooks
    /\ InitExtractor

SpecLayout == InitLayout /\ [][NextRender]_vars

InitCells ==
    /\ file \in CellWorkbooks
    /\ InitExtractor

SpecCells == InitCells /\ [][NextRender]_vars

(* The extraction calls alone. *)
NextExtract ==
    \/ \E fault \in Faults : extract_all(fault)
    \/ \E sheet_name \in RequestedNames(file), fault \in Faults :
           extract_single_sheet(sheet_name, fault)

InitDrawing ==
    /\ file \in DrawingWorkbooks
    /\ InitExtractor

SpecDrawing == InitDrawing /\ [][NextExtract]_vars

InitArchive ==
    /\ file \in ArchiveWorkbooks
    /\ InitExtractor

SpecArchive == InitArchive /\ [][NextExtract]_vars

----------------------------------------------------------------------------
(* Properties *)

Titles(f) == {f.sheets[i].title : i \in DOMAIN f.sheets}

SheetOf(f, title) == f.sheets[CHOOSE i \in DOMAIN f.sheets : f.sheets[i].title = title]

Extracted == {extracted_data.sheets[i] : i \in DOMAIN extracted_data.sheets}

Keys(data) == {data.cells[i].key : i \in DOMAIN data.cells}

(* C1: extract_single_sheet with a name that is not a sheet of the loaded   *)
(* workbook raises, and the message holds the name of every sheet of the    *)
(* workbook.                                                                *)
C1_NotFoundListsSheets ==
    (/\ last_call.op = "extract_single_sheet"
     /\ last_call.fault # "load"
     /\ last_call.sheet \notin Titles(file))
    => /\ last_call.raised
       /\ \A title \in Titles(file) : Contains(last_call.error, title)

C1_Witness ==
    /\ last_call.op = "extract_single_sheet"
    /\ last_call.fault = "none"
    /\ last_call.sheet \notin Titles(file)
    /\ last_call.raised
    /\ Len(file.sheets) = 2

(* C2: every key of a sheet's cells belongs to a cell of the worksheet that *)
(* has a value or has styling, and no cell of the worksheet with neither    *)
(* has its key in cells.                                                    *)
C2_CellsAreSparse ==
    \A sh \in Extracted :
        LET raw == SheetOf(file, sh.name).cells
        IN  /\ \A key \in Keys(sh.data) :
                  \E i \in DOMAIN raw :
                      /\ coordinate(raw[i].col, raw[i].row) = key
                      /\ (raw[i].value.k # "none" \/ raw[i].has_style)
            /\ \A i \in DOMAIN raw :
                  (raw[i].value.k = "none" /\ ~raw[i].has_style)
                  => coordinate(raw[i].col, raw[i].row) \notin Keys(sh.data)

C2_Witness ==
    \E sh \in Extracted :
        LET raw == SheetOf(file, sh.name).cells
        IN  /\ \E i \in DOMAIN raw : raw[i].value.k = "none" /\ ~raw[i].has_style
            /\ \E i \in DOMAIN raw : raw[i].value.k = "none" /\ raw[i].has_style
                                     /\ coordinate(raw[i].col, raw[i].row) \in Keys(sh.data)
            /\ \E i \in DOMAIN raw : raw[i].value.k # "none" /\ ~raw[i].has_style
                                     /\ coordinate(raw[i].col, raw[i].row) \in Keys(sh.data)

(* The text of one string, character by character: a pipe becomes a        *)
(* backslash and a pipe, a newline becomes one space.                       *)
RECURSIVE Escaped(_)
Escaped(text) ==
    IF text = <<>> THEN <<>>
    ELSE (IF Head(text) = "|" THEN <<"\\", "|">>
          ELSE IF Head(text) = "\n" THEN <<" ">>
          ELSE <<Head(text)>>) \o Escaped(Tail(text))

(* The text of the table cell of out_md that renders the cell `key`. *)
RenderedCell(data, key) ==
    LET cols == all_cols_of(data.cells)
        c == CHOOSE j \in DOMAIN cols : cols[j] = cell_col(key)
        p == CHOOSE q \in DOMAIN out_md :
                 out_md[q].t = "row" /\ out_md[q].row = cell_row(key)
    IN  out_md[p].s[c]

(* C6: in the Markdown just generated, the table cell of every string value *)
(* is the value with each pipe escaped and each newline replaced by a       *)
(* space; it holds no newline and no pipe without a backslash before it.    *)
C6_StringCellsEscaped ==
    (last_call.op = "generate_markdown")
    => \A sh \in Extracted : \A i \in DOMAIN sh.data.cells :
           LET cell == sh.data.cells[i]
               text == RenderedCell(sh.data, cell.key)
           IN  cell.data.value.k = "str"
               => /\ text = Escaped(cell.data.value.s)
                  /\ ~Contains(text, "\n")
                  /\ \A k \in DOMAIN text :
                         text[k] = "|" => (k > 1 /\ text[k - 1] = "\\")

C6_Witness ==
    /\ last_call.op = "generate_markdown"
    /\ \E sh \in Extracted : \E i \in DOMAIN sh.data.cells :
           /\ sh.data.cells[i].data.value = StrValue(<<"a", "|", "\n">>)
           /\ RenderedCell(sh.data, sh.data.cells[i].key) = <<"a", "\\", "|", " ">>

(* C8: every key of cells is its column letters followed by its row number  *)
(* in decimal, as generate_markdown splits it.                              *)
C8_KeyRoundTrip ==
    \A sh \in Extracted : \A key \in Keys(sh.data) :
        cell_col(key) \o str_int(cell_row(key)) = key

C8_Witness ==
    \E sh \in Extracted :
        /\ <<"A", "A", "1">> \in Keys(sh.data)
        /\ <<"B", "2">> \in Keys(sh.data)

(* The places of out_md that hold the line l. *)
Places(l) == {q \in DOMAIN out_md : out_md[q] = l}

ImageLine(img) == Line("image", 0, <<img.filename>>)

LabelLine(img) == Line("label", 0, <<position_text_of(img.position)>>)

Images(data) == {data.images[i] : i \in DOMAIN data.images}

(* C3: in the Markdown just generated, every image of every sheet whose     *)
(* position is None has its image reference, whether the sheet has cells or *)
(* not.                                                                     *)
C3_UnresolvedImagesEmitted ==
    (last_call.op = "generate_markdown")
    => \A sh \in Extracted : \A img \in Images(sh.data) :
           img.position = None => Places(ImageLine(img)) # {}

(* The entries of the groups of image_by_row, each with its key. *)
Grouped(data) ==
    LET image_by_row == image_by_row_of(data.images, Len(data.images))
    IN  UNION {{<<r, k>> : k \in DOMAIN image_by_row[r]} : r \in DOMAIN image_by_row}

GroupEntry(data, e) == image_by_row_of(data.images, Len(data.images))[e[1]][e[2]]

(* C4: grouping the images of a sheet by display row puts every image with  *)
(* a position in exactly one group, the one keyed fromRow + 1, and puts no  *)
(* image without a position in any group.                                   *)
C4_GroupedByDisplayRow ==
    \A sh \in Extracted :
        /\ \A img \in Images(sh.data) :
              LET E == {e \in Grouped(sh.data) :
                           GroupEntry(sh.data, e).filename = img.filename}
              IN  IF img.position = None THEN E = {}
                  ELSE /\ Cardinality(E) = 1
                       /\ \A e \in E : e[1] = img.position[2] + 1
        /\ Cardinality(Grouped(sh.data))
               = Cardinality({i \in DOMAIN sh.data.images :
                                 sh.data.images[i].position # None})

C4_Witness ==
    /\ last_call.op = "generate_markdown"
    /\ \E sh \in Extracted :
           /\ Len(sh.data.images) = 2
           /\ sh.data.images[1].position # None
           /\ sh.data.images[2].position # None
           /\ sh.data.images[1].position[2] = sh.data.images[2].position[2]
           /\ Cardinality(Grouped(sh.data)) = 2

RowPlaces(r) == {q \in DOMAIN out_md : out_md[q].t = "row" /\ out_md[q].row = r}

(* An image whose display row lies strictly between the data rows r1 and r2 *)
(* of a sheet, r2 the next data row after r1.                               *)
Between(data, img, r1, r2) ==
    LET rows == {cell_row(key) : key \in Keys(data)}
    IN  /\ img.position # None
        /\ r1 < img.position[2] + 1 /\ img.position[2] + 1 < r2
        /\ r1 \in rows /\ r2 \in rows /\ r1 < r2
        /\ \A r \in rows : ~(r1 < r /\ r < r2)

(* C5: in the Markdown just generated for one sheet, for consecutive data   *)
(* rows r1 < r2 and an image of display row d, r1 < d < r2: the table line  *)
(* of r1 is followed by a blank line, then (after the blocks of the images  *)
(* before it) by the label, blank, image reference and blank of the image,  *)
(* and the table line of r2 follows a header and a separator; no other      *)
(* table line lies between.                                                 *)
C5_ImageBetweenRows ==
    (last_call.op = "generate_markdown" /\ Len(extracted_data.sheets) = 1)
    => \A sh \in Extracted : \A img \in Images(sh.data) :
         \A r1, r2 \in {cell_row(key) : key \in Keys(sh.data)} :
           Between(sh.data, img, r1, r2)
           => \E p1 \in RowPlaces(r1), p2 \in RowPlaces(r2) :
                 /\ p1 < p2
                 /\ \A q \in (p1 + 1)..(p2 - 1) : out_md[q].t # "row"
                 /\ out_md[p1 + 1] = Blank
                 /\ out_md[p2 - 2].t = "header"
                 /\ out_md[p2 - 1].t = "separator"
                 /\ \E q \in (p1 + 2)..(p2 - 6) :
                       /\ out_md[q] = LabelLine(img)
                       /\ out_md[q + 1] = Blank
                       /\ out_md[q + 2] = ImageLine(img)
                       /\ out_md[q + 3] = Blank

(* Data rows 1 and 4, one image at display row 2 and one at display row 3. *)
C5_Witness ==
    /\ last_call.op = "generate_markdown"
    /\ \E sh \in Extracted :
           /\ {cell_row(key) : key \in Keys(sh.data)} = {1, 4}
           /\ Len(sh.data.images) = 2
           /\ Between(sh.data, sh.data.images[1], 1, 4)
           /\ Between(sh.data, sh.data.images[2], 1, 4)
           /\ sh.data.images[1].position[2] = 2
           /\ sh.data.images[2].position[2] = 1

(* C7: writing the JSON, or the Markdown, again with no extraction call     *)
(* since it was last written leaves the file as it was.                     *)
C7_SerializingTwice ==
    [][ /\ (last_call'.op = "save_to_json" /\ writes["json"] > 0)
           => out_json' = out_json
        /\ (last_call'.op = "generate_markdown" /\ writes["md"] > 0)
           => out_md' = out_md ]_vars

C7_Witness ==
    /\ writes["md"] = 2
    /\ last_call.op = "generate_markdown"
    /\ \E sh \in Extracted : sh.data.images # <<>> /\ sh.data.cells # <<>>

(* The rectangles of the anchors of the drawing fragments of the archive. *)
Rectangles(f) ==
    {<<a.from.col, a.from.row,
       IF a.to.present THEN a.to.col ELSE a.from.col,
       IF a.to.present THEN a.to.row ELSE a.from.row>> :
        a \in UNION {{f.drawings[n].anchors[i] : i \in DOMAIN f.drawings[n].anchors} :
                        n \in DOMAIN f.drawings}}

(* A fragment the resolver reads that is not well-formed, or holds an       *)
(* anchor without col or row.                                               *)
ResolverFails(f) ==
    parse_drawings(f.drawings, 1, <<>>).raised

ExtractionCall ==
    /\ last_call.op \in {"extract_all", "extract_single_sheet"}
    /\ last_call.fault = "none"
    /\ (last_call.op = "extract_single_sheet" => last_call.sheet \in Titles(file))

(* C9: an extraction call whose only failure is in the resolution of the    *)
(* drawing anchors does not raise: every sheet asked for is extracted with  *)
(* its cells, merges, hyperlinks and comments, and every image has a        *)
(* rectangle of the archive or position None.                               *)
C9_ResolverNeverRaises ==
    (ExtractionCall /\ ResolverFails(file))
    => /\ ~last_call.raised
       /\ {sh.name : sh \in Extracted}
              = IF last_call.op = "extract_all" THEN Titles(file) ELSE {last_call.sheet}
       /\ \A sh \in Extracted :
              LET ws == SheetOf(file, sh.name)
              IN  /\ Keys(sh.data) = {coordinate(ws.cells[i].col, ws.cells[i].row) :
                                         i \in {j \in DOMAIN ws.cells :
                                                   ws.cells[j].value.k # "none"
                                                   \/ ws.cells[j].has_style}}
                  /\ sh.data.merged_cells = ws.merged
                  /\ Len(sh.data.hyperlinks)
                       = Cardinality({i \in DOMAIN ws.cells : ws.cells[i].hyperlink # None})
                  /\ Len(sh.data.comments)
                       = Cardinality({i \in DOMAIN ws.cells : ws.cells[i].comment # None})
                  /\ Len(sh.data.images) = Len(ws.images)
                  /\ \A img \in Images(sh.data) :
                         img.position = None \/ img.position \in Rectangles(file)

(* Fragment 1 is read, fragment 2 is malformed: the first image has its     *)
(* rectangle, the last has none.                                            *)
C9_Witness ==
    /\ ExtractionCall /\ ResolverFails(file)
    /\ 2 \in DOMAIN file.drawings /\ ~file.drawings[2].well_formed
    /\ \E sh \in Extracted :
           /\ sh.data.images[1].position # None
           /\ sh.data.images[Len(sh.data.images)].position = None
           /\ sh.data.hyperlinks # <<>> /\ sh.data.comments # <<>>
           /\ sh.data.merged_cells # <<>>

(* The sheets of the workbook, in order, without attached images. *)
Unattached(f) == {i \in DOMAIN f.sheets : f.sheets[i].images = <<>>}

(* C10: after extract_all as the first call on the extractor, with the      *)
(* workbook loaded and the output directory writable: the first sheet       *)
(* without attached images holds one image per media file of the archive,   *)
(* in archive order, and every later sheet without attached images holds    *)
(* none.                                                                    *)
C10_FallbackOnce ==
    (/\ last_call.op = "extract_all" /\ calls = 1 /\ last_call.fault = "none")
    => /\ ~last_call.raised
       /\ Len(extracted_data.sheets) = Len(file.sheets)
       /\ \A i \in Unattached(file) :
              LET images == extracted_data.sheets[i].data.images
                  media_files == media_files_of(file.namelist)
              IN  IF \A j \in Unattached(file) : i <= j
                  THEN /\ Len(images) = Len(media_files)
                       /\ \A k \in DOMAIN images : images[k].source = media_files[k]
                  ELSE images = <<>>

C10_Witness ==
    /\ last_call.op = "extract_all" /\ calls = 1 /\ last_call.fault = "none"
    /\ Unattached(file) = {1, 2}
    /\ Len(extracted_data.sheets[1].data.images) = 2
    /\ extracted_data.sheets[2].data.images = <<>>

(* C11: no archive handle is open between the operations: every handle an   *)
(* extraction call opens, in the resolver or in the archive scan, is        *)
(* released before the call ends, whether it returns or raises.             *)
C11_HandlesReleased == open_handles = 0

(* The resolver fails on a fragment and the scan fails on a write; both     *)
(* were entered and both are caught.                                        *)
C11_Witness ==
    /\ last_call.op \in {"extract_all", "extract_single_sheet"}
    /\ last_call.fault = "write"
    /\ ~last_call.raised
    /\ ResolverFails(file)
    /\ images_extracted_from_zip
    /\ media_files_of(file.namelist) # <<>>
    /\ open_handles = 0

(* C12: extract_all called right after an extract_all on the same           *)
(* extractor, the workbook loaded and the output directory writable in      *)
(* both, yields the Snapshots the first call yielded, image lists included. *)
C12_SuccessiveExtractAllEqual ==
    [][ (/\ last_call.op = "extract_all" /\ last_call.fault = "none"
         /\ last_call'.op = "extract_all" /\ last_call'.fault = "none")
        => extracted_data' = extracted_data ]_vars

(* The fragments the resolver reads, and the rectangles one fragment gives  *)
(* when it is parsed alone.                                                 *)
ReadFragments(f) == {n \in DOMAIN f.drawings : n < DrawingIdxStop}

ParsedAlone(fragment) ==
    IF fragment.well_formed
    THEN parse_anchors(anchor_elements(fragment),
                       [positions |-> <<>>, img_idx |-> 1, raised |-> FALSE])
    ELSE [positions |-> <<>>, img_idx |-> 1, raised |-> TRUE]

FailingFragments(f) == {n \in ReadFragments(f) : ParsedAlone(f.drawings[n]).raised}

SoundFragments(f) == ReadFragments(f) \ FailingFragments(f)

(* C13: after an extraction call on an archive with a failing fragment,     *)
(* every image whose index some other, well-formed fragment (numbered       *)
(* before or after the failing one) has an anchor for, has a position.      *)
C13_FailureIsolatedPerFragment ==
    (ExtractionCall /\ FailingFragments(file) # {})
    => \A sh \in Extracted : \A i \in DOMAIN sh.data.images :
           (\E n \in SoundFragments(file) :
               i <= Len(ParsedAlone(file.drawings[n]).positions))
           => sh.data.images[i].position # None

(* The rectangles of the anchors of a fragment, indexed in the order in     *)
(* which the anchor elements occur in the document.                         *)
InDocumentOrder(fragment) ==
    parse_anchors(fragment.anchors,
                  [positions |-> <<>>, img_idx |-> 1, raised |-> FALSE]).positions

(* C14: after an extraction call on an archive whose only fragment is       *)
(* drawing1.xml, well-formed and with col and row in every anchor, the i-th *)
(* image has the rectangle of the i-th anchor of the document.              *)
C14_IndicesInDocumentOrder ==
    (ExtractionCall /\ DOMAIN file.drawings = {1} /\ SoundFragments(file) = {1})
    => \A sh \in Extracted : \A i \in DOMAIN sh.data.images :
           i <= Len(InDocumentOrder(file.drawings[1]))
           => sh.data.images[i].position = InDocumentOrder(file.drawings[1])[i]

(* The anchor elements of the drawing fragments of the archive. *)
Anchors(f) ==
    UNION {{f.drawings[n].anchors[i] : i \in DOMAIN f.drawings[n].anchors} :
              n \in DOMAIN f.drawings}

(* C15: every position of an extracted image is the rectangle of an anchor  *)
(* of the archive with that from cell: of a one-cell anchor, with to equal  *)
(* to from, or of a two-cell anchor, with the col and row of its to         *)
(* element.                                                                 *)
C15_ToOfOneAndTwoCellAnchors ==
    \A sh \in Extracted : \A img \in Images(sh.data) :
        img.position # None
        => \E a \in Anchors(file) :
              /\ a.from.present /\ a.from.ok
              /\ img.position[1] = a.from.col /\ img.position[2] = a.from.row
              /\ a.kind = "one"
                 => (img.position[3] = a.from.col /\ img.position[4] = a.from.row)
              /\ a.kind = "two"
                 => (img.position[3] = a.to.col /\ img.position[4] = a.to.row)

(* One image placed by a two-cell anchor, one by a one-cell anchor. *)
C15_Witness ==
    \E sh \in Extracted :
        /\ sh.data.images[1].position = <<1, 2, 2, 3>>
        /\ sh.data.images[2].position = <<0, 1, 0, 1>>
        /\ TwoCellAnchor(1, 2, 2, 3) \in Anchors(file)
        /\ OneCellAnchor(0, 1) \in Anchors(file)

(* C16: after an extraction call on an archive all of whose drawing         *)
(* fragments parse, every image whose index some fragment drawingN.xml, of  *)
(* any N, has an anchor for, has a position.                                *)
C16_EveryFragmentParsed ==
    (ExtractionCall
     /\ \A n \in DOMAIN file.drawings : ~ParsedAlone(file.drawings[n]).raised)
    => \A sh \in Extracted : \A i \in DOMAIN sh.data.images :
           (\E n \in DOMAIN file.drawings :
               i <= Len(ParsedAlone(file.drawings[n]).positions))
           => sh.data.images[i].position # None

(* An attached image is named after its sheet, a scanned one after the      *)
(* workbook, with its archive member as source.                             *)
SheetQualified(name, img) == img.source = None /\ Head(img.filename) = name

WorkbookQualified(img) == img.source # None /\ Head(img.filename) = "workbook_image_"

(* C17: the images of an extracted sheet are all sheet-qualified, one per   *)
(* attached image, when the worksheet has attached images, and all          *)
(* workbook-qualified otherwise; the archive scan has been attempted only   *)
(* if some worksheet has no attached image.                                 *)
C17_StrategiesExclusive ==
    /\ \A sh \in Extracted :
           LET ws == SheetOf(file, sh.name)
           IN  IF ws.images # <<>>
               THEN /\ Len(sh.data.images) = Len(ws.images)
                    /\ \A img \in Images(sh.data) : SheetQualified(sh.name, img)
               ELSE \A img \in Images(sh.data) : WorkbookQualified(img)
    /\ images_extracted_from_zip => Unattached(file) # {}

(* A sheet with attached images and a sheet with scanned images, in a       *)
(* workbook whose archive holds both.                                       *)
C17_Witness ==
    /\ last_call.op = "extract_all"
    /\ \E sh \in Extracted :
           sh.data.images # <<>> /\ \A img \in Images(sh.data) : SheetQualified(sh.name, img)
    /\ \E sh \in Extracted :
           sh.data.images # <<>> /\ \A img \in Images(sh.data) : WorkbookQualified(img)

DataRows(data) == {cell_row(key) : key \in Keys(data)}

(* The images of a sheet with display row d, in Snapshot order. *)
GroupAt(data, d) ==
    LET AtRow(img) == img.position # None /\ img.position[2] + 1 = d
    IN  SelectSeq(data.images, AtRow)

(* The lines of out_md from place q on are the labeled blocks of `group`. *)
BlocksAt(q, group) ==
    /\ q + 4 * Len(group) - 1 \in DOMAIN out_md
    /\ \A j \in DOMAIN group :
           /\ out_md[q + 4 * (j - 1)] = LabelLine(group[j])
           /\ out_md[q + 4 * (j - 1) + 1] = Blank
           /\ out_md[q + 4 * (j - 1) + 2] = ImageLine(group[j])
           /\ out_md[q + 4 * (j - 1) + 3] = Blank

(* C18: in the Markdown just generated for one sheet, for every data row r  *)
(* with images of display row r + 1: the table line of r is followed by a   *)
(* blank line and the labeled blocks of these images, in order, and the     *)
(* line after the blocks is a table header if and only if r is not the last *)
(* data row.                                                                *)
C18_GroupAfterItsRow ==
    (last_call.op = "generate_markdown" /\ Len(extracted_data.sheets) = 1)
    => \A sh \in Extracted : \A r \in DataRows(sh.data) :
           LET group == GroupAt(sh.data, r + 1)
           IN  group # <<>>
               => \E p \in RowPlaces(r) :
                     LET after == p + 2 + 4 * Len(group)
                     IN  /\ out_md[p + 1] = Blank
                         /\ BlocksAt(p + 2, group)
                         /\ (after \in DOMAIN out_md /\ out_md[after].t = "header"
                             /\ out_md[after + 1].t = "separator")
                            <=> (r # Max(DataRows(sh.data)))

(* Data rows 1 and 3, one image of display row 2 and one of display row 4. *)
C18_Witness ==
    /\ last_call.op = "generate_markdown"
    /\ \E sh \in Extracted :
           /\ DataRows(sh.data) = {1, 3}
           /\ Len(GroupAt(sh.data, 2)) = 1
           /\ Len(GroupAt(sh.data, 4)) = 1

(* An image of a sheet whose display row is greater than every data row. *)
BeyondLastRow(data, img) ==
    /\ data.cells # <<>>
    /\ img.position # None
    /\ img.position[2] + 1 > Max(DataRows(data))

(* C19: in the Markdown just generated for one sheet with cells, every      *)
(* image whose display row is greater than the last data row has its label  *)
(* and its reference after the table line of the last data row, and of two  *)
(* such images the one of the lower display row comes first.                *)
C19_GroupsBeyondLastRow ==
    (last_call.op = "generate_markdown" /\ Len(extracted_data.sheets) = 1)
    => \A sh \in Extracted : \A img \in Images(sh.data) :
           BeyondLastRow(sh.data, img)
           => /\ Places(ImageLine(img)) # {}
              /\ \A q \in Places(ImageLine(img)) :
                     /\ \A p \in RowPlaces(Max(DataRows(sh.data))) : p < q
                     /\ out_md[q - 2] = LabelLine(img)
              /\ \A other \in Images(sh.data) :
                     (BeyondLastRow(sh.data, other)
                      /\ img.position[2] < other.position[2])
                     => \A q \in Places(ImageLine(img)), o \in Places(ImageLine(other)) :
                            q < o

(* One data row; the first image of the Snapshot lies two rows below the    *)
(* second, both beyond the data row.                                        *)
C19_Witness ==
    /\ last_call.op = "generate_markdown"
    /\ \E sh \in Extracted :
           /\ DataRows(sh.data) = {1}
           /\ Len(sh.data.images) = 2
           /\ sh.data.images[1].position # None /\ sh.data.images[2].position # None
           /\ sh.data.images[1].position[2] = 3
           /\ sh.data.images[2].position[2] = 1
           /\ Places(ImageLine(sh.data.images[2])) # {}

(* The image references of out_md, in order. *)
ImageRefs ==
    LET IsImage(l) == l.t = "image"
    IN  SelectSeq(out_md, IsImage)

(* C20: in the Markdown just generated for one sheet without cells and with *)
(* images: there is no table line, the image references are those of the    *)
(* images of the Snapshot, one each and in its order, and the reference of  *)
(* an image follows a blank line, which follows the label of the image if   *)
(* the image has a position and no label otherwise.                         *)
C20_ImagesWithoutCells ==
    (last_call.op = "generate_markdown" /\ Len(extracted_data.sheets) = 1)
    => \A sh \in Extracted :
           (sh.data.cells = <<>> /\ sh.data.images # <<>>)
           => /\ \A q \in DOMAIN out_md : out_md[q].t \notin {"header", "separator", "row"}
              /\ ImageRefs = [i \in DOMAIN sh.data.images |-> ImageLine(sh.data.images[i])]
              /\ \A img \in Images(sh.data) : \A q \in Places(ImageLine(img)) :
                     /\ out_md[q - 1] = Blank
                     /\ IF img.position # None
                        THEN out_md[q - 2] = LabelLine(img)
                        ELSE out_md[q - 2].t # "label"

(* No cells; the first image has a position, the second has none. *)
C20_Witness ==
    /\ last_call.op = "generate_markdown"
    /\ \E sh \in Extracted :
           /\ sh.data.cells = <<>>
           /\ Len(sh.data.images) = 2
           /\ sh.data.images[1].position # None
           /\ sh.data.images[2].position = None
           /\ Len(ImageRefs) = 2

(* C21: in the Markdown just generated for one sheet whose Snapshot has no  *)
(* cells and no images, the title of the report is followed by the heading  *)
(* of the sheet and a blank line, and by nothing else.                      *)
C21_EmptySheetIsJustHeading ==
    (last_call.op = "generate_markdown" /\ Len(extracted_data.sheets) = 1)
    => \A sh \in Extracted :
           (sh.data.cells = <<>> /\ sh.data.images = <<>>)
           => SubSeq(out_md, 3, Len(out_md)) = <<Line("h2", 0, <<(<<sh.name>>)>>), Blank>>

(* C21, amended: in the Markdown just generated for one sheet whose         *)
(* Snapshot has no cells, no images, no hyperlinks and no comments, the     *)
(* title of the report is followed by the heading of the sheet and a blank  *)
(* line, and by nothing else.                                               *)
C21_BlankSheetIsJustHeading ==
    (last_call.op = "generate_markdown" /\ Len(extracted_data.sheets) = 1)
    => \A sh \in Extracted :
           (/\ sh.data.cells = <<>> /\ sh.data.images = <<>>
            /\ sh.data.hyperlinks = <<>> /\ sh.data.comments = <<>>)
           => SubSeq(out_md, 3, Len(out_md)) = <<Line("h2", 0, <<(<<sh.name>>)>>), Blank>>

C21_Witness ==
    /\ last_call.op = "generate_markdown"
    /\ \E sh \in Extracted :
           /\ sh.data.cells = <<>> /\ sh.data.images = <<>>
           /\ sh.data.hyperlinks = <<>> /\ sh.data.comments = <<>>
    /\ Len(out_md) = 4

(* The column letters of the keys of the cells of a sheet. *)
Columns(data) == {cell_col(key) : key \in Keys(data)}

(* a comes before b in the order of str: at the first place where they      *)
(* differ a has the earlier letter, or a is a proper prefix of b.           *)
Before(a, b) ==
    \/ \E k \in 1..Len(a) :
           /\ k <= Len(b)
           /\ SubSeq(a, 1, k - 1) = SubSeq(b, 1, k - 1)
           /\ IndexOf(Alphabet, a[k], 1) < IndexOf(Alphabet, b[k], 1)
    \/ Len(a) < Len(b) /\ a = SubSeq(b, 1, Len(a))

(* The number of a column: A is 1, Z is 26, AA is 27. *)
RECURSIVE ColumnNumber(_)
ColumnNumber(col) ==
    IF col = <<>> THEN 0
    ELSE 26 * ColumnNumber(SubSeq(col, 1, Len(col) - 1))
         + IndexOf(Alphabet, col[Len(col)], 1)

(* C22: in the Markdown just generated for one sheet with cells, every      *)
(* table header lists the column letters of the keys of the cells, each     *)
(* once, in the order of str; when every column is one letter that is the   *)
(* order of the column numbers, and AA is listed before B.                  *)
C22_HeaderSortedLexically ==
    (last_call.op = "generate_markdown" /\ Len(extracted_data.sheets) = 1)
    => \A sh \in Extracted : \A q \in DOMAIN out_md :
           out_md[q].t = "header"
           => LET cols == out_md[q].s
              IN  /\ {cols[i] : i \in DOMAIN cols} = Columns(sh.data)
                  /\ Len(cols) = Cardinality(Columns(sh.data))
                  /\ \A i, j \in DOMAIN cols : i < j => Before(cols[i], cols[j])
                  /\ (\A i \in DOMAIN cols : Len(cols[i]) = 1)
                     => \A i, j \in DOMAIN cols :
                            i < j => ColumnNumber(cols[i]) < ColumnNumber(cols[j])
                  /\ \A i, j \in DOMAIN cols :
                         (cols[i] = <<"A", "A">> /\ cols[j] = <<"B">>) => i < j

(* The cells A1, AA1 and B2: the header is A, AA, B. *)
C22_Witness ==
    /\ last_call.op = "generate_markdown"
    /\ \E q \in DOMAIN out_md :
           /\ out_md[q].t = "header"
           /\ out_md[q].s = <<(<<"A">>), (<<"A", "A">>), (<<"B">>)>>

(* C23: save_to_json, generate_markdown and generate_summary leave the      *)
(* extracted data, the one-shot flag, the workbook file and the archive     *)
(* handles as they were; each writes its own output file and no other.      *)
C23_SerializersFrame ==
    [][ (last_call'.op \in {"save_to_json", "generate_markdown", "generate_summary"})
        => /\ extracted_data' = extracted_data
           /\ images_extracted_from_zip' = images_extracted_from_zip
           /\ file' = file
           /\ open_handles' = open_handles
           /\ last_call'.op # "save_to_json" => out_json' = out_json
           /\ last_call'.op # "generate_markdown" => out_md' = out_md
           /\ last_call'.op # "generate_summary" => out_summary' = out_summary ]_vars

(* The JSON and the summary written from extracted data with the flag set. *)
C23_Witness ==
    /\ last_call.op = "generate_summary"
    /\ images_extracted_from_zip
    /\ \E sh \in Extracted : sh.data.images # <<>>
    /\ out_json # NotWritten /\ out_summary # NotWritten

(* C24: in the Markdown just generated for one sheet with cells, the        *)
(* reference of every image with a position occurs exactly once, after the  *)
(* label of the image and a blank line.                                     *)
C24_EachBlockExactlyOnce ==
    (last_call.op = "generate_markdown" /\ Len(extracted_data.sheets) = 1)
    => \A sh \in Extracted : \A img \in Images(sh.data) :
           (sh.data.cells # <<>> /\ img.position # None)
           => /\ Cardinality(Places(ImageLine(img))) = 1
              /\ \A q \in Places(ImageLine(img)) :
                     out_md[q - 2] = LabelLine(img) /\ out_md[q - 1] = Blank

(* C25: in the Markdown just generated for one sheet, every table header    *)
(* is followed by its separator and the separator by the table line of a    *)
(* data row.                                                                *)
C25_HeaderFollowedByRow ==
    (last_call.op = "generate_markdown" /\ Len(extracted_data.sheets) = 1)
    => \A q \in DOMAIN out_md :
           out_md[q].t = "header"
           => /\ q + 2 \in DOMAIN out_md
              /\ out_md[q + 1].t = "separator"
              /\ out_md[q + 2].t = "row"

(* C26: in the Markdown just generated for one sheet, every data row has    *)
(* exactly one table line, the table lines are in ascending row order, and  *)
(* every reference of an image of display row d that was written comes      *)
(* after the table lines of the data rows below d and before the table      *)
(* lines of the data rows d and above.                                      *)
C26_RowsAscendingImagesInPlace ==
    (last_call.op = "generate_markdown" /\ Len(extracted_data.sheets) = 1)
    => \A sh \in Extracted :
           /\ \A r \in DataRows(sh.data) : Cardinality(RowPlaces(r)) = 1
           /\ \A p, q \in DOMAIN out_md :
                  (out_md[p].t = "row" /\ out_md[q].t = "row" /\ p < q)
                  => out_md[p].row < out_md[q].row
           /\ \A img \in Images(sh.data) :
                  (sh.data.cells # <<>> /\ img.position # None)
                  => \A q \in Places(ImageLine(img)) : \A r \in DataRows(sh.data) :
                         \A p \in RowPlaces(r) :
                             IF r < img.position[2] + 1 THEN p < q ELSE q < p

(* Data rows 1 and 3 and an image of display row 2, written twice between   *)
(* the two table lines.                                                     *)
C26_Witness ==
    /\ last_call.op = "generate_markdown"
    /\ Len(extracted_data.sheets) = 1
    /\ \E sh \in Extracted :
           /\ DataRows(sh.data) = {1, 3}
           /\ \E img \in Images(sh.data) :
                  /\ img.position # None /\ img.position[2] + 1 = 2
                  /\ Cardinality(Places(ImageLine(img))) = 2

(* An extraction call that reaches a worksheet without attached images      *)
(* while the flag is not set.                                               *)
TriggersFallback(call) ==
    /\ call.fault # "load"
    /\ \/ call.op = "extract_all" /\ 1 \in Unattached(file)
       \/ /\ call.op = "extract_single_sheet"
          /\ call.sheet \in Titles(file)
          /\ SheetOf(file, call.sheet).images = <<>>

(* C27: no step clears the one-shot flag; a call that reaches a worksheet   *)
(* without attached images leaves the flag set, whether the scan raised or  *)
(* found no media file; and an extraction call that starts with the flag    *)
(* set and returns reports no scanned image in any sheet.                   *)
C27_FlagSetOnceNeverCleared ==
    [][/\ images_extracted_from_zip => images_extracted_from_zip'
       /\ TriggersFallback(last_call') => images_extracted_from_zip'
       /\ (/\ images_extracted_from_zip
           /\ last_call'.op \in {"extract_all", "extract_single_sheet"}
           /\ ~last_call'.raised)
          => \A i \in DOMAIN extracted_data'.sheets :
                 \A img \in Images(extracted_data'.sheets[i].data) :
                     ~WorkbookQualified(img)]_vars

(* The first call scanned an archive with media files and every write       *)
(* failed: the scan raised, the flag is set, and the second sheet without   *)
(* attached images was extracted without a scan.                            *)
C27_Witness ==
    /\ calls = 1
    /\ last_call.op = "extract_all" /\ last_call.fault = "write"
    /\ ~last_call.raised
    /\ images_extracted_from_zip
    /\ Unattached(file) = {1, 2}
    /\ media_files_of(file.namelist) # <<>>
    /\ Len(extracted_data.sheets) = 2
    /\ \A sh \in Extracted : sh.data.images = <<>>

(* The fragments of an archive with an anchor of index i. *)
FragmentsWith(f, i) ==
    {n \in DOMAIN f.drawings : i <= Len(ParsedAlone(f.drawings[n]).positions)}

(* C28: after an extraction call on an archive with several drawing         *)
(* fragments, all of which parse: the i-th image has the rectangle of the   *)
(* i-th anchor of the highest-numbered fragment with an anchor of index i,  *)
(* and no position when no fragment has one, so that as many images have a  *)
(* position as the largest fragment has anchors.                            *)
C28_HigherFragmentReplaces ==
    (/\ ExtractionCall
     /\ Cardinality(DOMAIN file.drawings) >= 2
     /\ \A n \in DOMAIN file.drawings : ~ParsedAlone(file.drawings[n]).raised)
    => \A sh \in Extracted : \A i \in DOMAIN sh.data.images :
           IF FragmentsWith(file, i) = {}
           THEN sh.data.images[i].position = None
           ELSE sh.data.images[i].position
                    = ParsedAlone(file.drawings[Max(FragmentsWith(file, i))]).positions[i]

(* C29: a step in which extract_all or extract_single_sheet raises leaves   *)
(* the extracted data as it was before the call.                            *)
C29_ExtractedDataReplacedAtomically ==
    [][(/\ last_call'.op \in {"extract_all", "extract_single_sheet"}
        /\ last_call'.raised)
       => extracted_data' = extracted_data]_vars

(* The blobs behind the images reported for an extracted sheet: an attached *)
(* image is the blob of the worksheet's image of the same index, a scanned  *)
(* image the blob of the media file it was read from.                       *)
BlobsOf(sh) ==
    {SheetOf(file, sh.name).images[i].blob :
         i \in {j \in DOMAIN sh.data.images : sh.data.images[j].source = None}}
    \cup {b \in 1..MaxMedia :
              \E img \in Images(sh.data) : img.source = MediaName(b)}

(* C30: after extract_all has returned, no blob is behind an image of two   *)
(* different sheets.                                                        *)
C30_BlobInAtMostOneSheet ==
    (last_call.op = "extract_all" /\ ~last_call.raised)
    => \A sh1, sh2 \in Extracted :
           sh1.name # sh2.name => BlobsOf(sh1) \cap BlobsOf(sh2) = {}

====
